---- MODULE Spec2Model ----
(***************************************************************************)
(* wasmup: a proxy-wasm HTTP filter (src/src/lib.rs).  The plugin is two   *)
(* stateless contexts: Root, whose create_http_context makes one Filter    *)
(* per HTTP stream, and Filter, whose on_http_response_headers asks the    *)
(* host to set the response header x-wasm-custom to FOO and returns        *)
(* Action::Continue.  The host (the proxy) drives every callback; it is    *)
(* modelled here as the environment: it owns the per-stream response       *)
(* header tables, answers each host-call with a status, and acts on the    *)
(* Action a callback returns.  The wasm VM is single-threaded, so at most  *)
(* one callback runs at a time (the variable frame).                       *)
(***************************************************************************)
EXTENDS Naturals, Sequences, FiniteSets

\* ------------------------------------------------------------------ bounds
MaxStreams == 2          \* stream identifiers the host hands out: 1..MaxStreams
MaxValues == 1           \* values an upstream response carries under x-wasm-custom

Ids == 1..MaxStreams

\* ------------------------------------------------------ headers and tables
XWasmCustom == "x-wasm-custom"
OtherHeader == "content-type"
HeaderNames == {XWasmCustom, OtherHeader}
CustomValues == {"FOO", "BAR"}

SeqsUpTo(S, n) == UNION {[1..k -> S] : k \in 0..n}

\* A header table maps each name to the sequence of values it carries.
EmptyTable == [n \in HeaderNames |-> <<>>]

\* The response header tables an upstream may send: no header at all, or a
\* content-type and up to MaxValues values under x-wasm-custom.
UpstreamTables ==
    {EmptyTable} \cup
    {[n \in HeaderNames |-> IF n = XWasmCustom THEN c ELSE <<"text/plain">>] :
        c \in SeqsUpTo(CustomValues, MaxValues)}

\* The host's header count, the _num argument of on_http_response_headers.
HeaderCount(t) == Len(t[XWasmCustom]) + Len(t[OtherHeader])

Values(s) == {s[i] : i \in 1..Len(s)}

\* ------------------------------------------------------------- the plugin
\* lib.rs:17  set_http_response_header("x-wasm-custom", Some("FOO"))
ResponseHeaderCallWrongValue ==
    [op |-> "set", map |-> "HttpResponseHeaders", key |-> XWasmCustom, value |-> "foo"]

ResponseHeaderCallAdd ==
    [op |-> "add", map |-> "HttpResponseHeaders", key |-> XWasmCustom, value |-> "FOO"]

ResponseHeaderCallWrongKey ==
    [op |-> "set", map |-> "HttpResponseHeaders", key |-> OtherHeader, value |-> "FOO"]

ResponseHeaderCall ==
    [op |-> "set", map |-> "HttpResponseHeaders", key |-> XWasmCustom, value |-> "FOO"]

\* lib.rs:17  the host-call names no context: it acts on the exchange whose
\* callback is running (the host's effective context).
HostCallTargetFirst(id) == 1

HostCallTarget(id) == id

\* lib.rs:7-9  Root::create_http_context: Some(Box::new(Filter)), no host-call.
create_http_context_limited(id) ==
    [some |-> id <= 1, ctx |-> "Filter", calls |-> <<>>]

create_http_context_sets_header(id) ==
    [some |-> TRUE, ctx |-> "Filter", calls |-> <<ResponseHeaderCall>>]

create_http_context(id) ==
    [some |-> TRUE, ctx |-> "Filter", calls |-> <<>>]

\* lib.rs:15-19  Filter::on_http_response_headers: the host-calls the body
\* issues, in order, and the Action it returns given the statuses the host
\* answered (results).  The body binds the one Result to _ and returns
\* Action::Continue.
on_http_response_headers_eos_only(num, eos, results) ==
    [calls |-> <<ResponseHeaderCall>>,
     ret |-> IF eos THEN "Continue" ELSE "Pause"]

on_http_response_headers_unwrap(num, eos, results) ==
    [calls |-> <<ResponseHeaderCall>>,
     ret |-> IF "Err" \in Values(results) THEN "Trap" ELSE "Continue"]

on_http_response_headers_pause_on_err(num, eos, results) ==
    [calls |-> <<ResponseHeaderCall>>,
     ret |-> IF "Err" \in Values(results) THEN "Pause" ELSE "Continue"]

on_http_response_headers_reads_first(num, eos, results) ==
    [calls |-> <<[op |-> "get", map |-> "HttpResponseHeaders",
                  key |-> XWasmCustom, value |-> ""],
                 ResponseHeaderCall>>,
     ret |-> "Continue"]

on_http_response_headers(num, eos, results) ==
    [calls |-> <<ResponseHeaderCall>>,
     ret |-> "Continue"]

\* --------------------------------------------------------------- the host
\* The host's answer to one host-call on a response header table: on a
\* failure (status Err) the table is left as it was; set replaces every value
\* under the key by the one given, add appends, remove clears, get reads.
HostApply(t, call, st) ==
    IF st # "Ok" \/ call.map # "HttpResponseHeaders" \/ call.key \notin HeaderNames
    THEN t
    ELSE IF call.op = "set" THEN [t EXCEPT ![call.key] = <<call.value>>]
    ELSE IF call.op = "add" THEN [t EXCEPT ![call.key] = Append(@, call.value)]
    ELSE IF call.op = "remove" THEN [t EXCEPT ![call.key] = <<>>]
    ELSE t

RECURSIVE HostApplyAll(_, _)
HostApplyAll(t, calls) ==
    IF calls = <<>> THEN t
    ELSE HostApplyAll(HostApply(t, Head(calls), "Ok"), Tail(calls))

Idle == [id |-> 0, num |-> 0, eos |-> FALSE, pc |-> 0, results |-> <<>>]

VARIABLES
    root,       \* "none", or "Root" once the host created the root context
    phase,      \* per stream: where the exchange stands
    upstream,   \* per stream: the response headers as the upstream sent them
    headers,    \* per stream: the host's response header table
    hostcalls,  \* per stream: the host-calls the plugin issued for it
    results,    \* per stream: the status the host answered to each of them
    action,     \* per stream: what on_http_response_headers returned
    delivered,  \* per stream: the header table forwarded downstream
    frame       \* the callback that is running, or Idle

vars == <<root, phase, upstream, headers, hostcalls, results, action, delivered, frame>>

Init ==
    /\ root = "none"
    /\ phase = [i \in Ids |-> "none"]
    /\ upstream = [i \in Ids |-> EmptyTable]
    /\ headers = [i \in Ids |-> EmptyTable]
    /\ hostcalls = [i \in Ids |-> <<>>]
    /\ results = [i \in Ids |-> <<>>]
    /\ action = [i \in Ids |-> "none"]
    /\ delivered = [i \in Ids |-> EmptyTable]
    /\ frame = Idle

\* lib.rs:22-24  main!: set_root_context(|_vm_id| Box::new(Root)); the host
\* starts the plugin and the registered closure builds Root.
HostStart ==
    /\ root = "none"
    /\ frame = Idle
    /\ root' = "Root"
    /\ UNCHANGED <<phase, upstream, headers, hostcalls, results, action, delivered, frame>>

\* The host begins a new HTTP stream and calls Root::create_http_context(id).
HostNewStream(id) ==
    /\ root = "Root"
    /\ frame = Idle
    /\ phase[id] = "none"
    /\ LET r == create_http_context(id)
       IN /\ phase' = [phase EXCEPT ![id] = IF r.some THEN "created" ELSE "no_context"]
          /\ hostcalls' = [hostcalls EXCEPT ![id] = @ \o r.calls]
          /\ headers' = [headers EXCEPT ![id] = HostApplyAll(@, r.calls)]
    /\ UNCHANGED <<root, upstream, results, action, delivered, frame>>

\* The upstream's response headers arrive for a stream.
HostUpstreamResponse(id, t) ==
    /\ frame = Idle
    /\ phase[id] = "created"
    /\ phase' = [phase EXCEPT ![id] = "upstream"]
    /\ upstream' = [upstream EXCEPT ![id] = t]
    /\ headers' = [headers EXCEPT ![id] = t]
    /\ UNCHANGED <<root, hostcalls, results, action, delivered, frame>>

\* The host invokes on_http_response_headers(num, eos) on the stream's Filter.
HostInvoke(id, eos) ==
    /\ frame = Idle
    /\ phase[id] = "upstream"
    /\ phase' = [phase EXCEPT ![id] = "running"]
    /\ frame' = [id |-> id, num |-> HeaderCount(headers[id]), eos |-> eos,
                 pc |-> 1, results |-> <<>>]
    /\ UNCHANGED <<root, upstream, headers, hostcalls, results, action, delivered>>

\* lib.rs:17  the running callback issues its next host-call; the host applies
\* it to the target's table and answers Ok, or refuses it and answers Err.
FilterHostCall(st) ==
    /\ frame.id # 0
    /\ phase[frame.id] = "running"
    /\ LET body == on_http_response_headers(frame.num, frame.eos, frame.results)
           tgt == HostCallTarget(frame.id)
       IN /\ frame.pc <= Len(body.calls)
          /\ hostcalls' = [hostcalls EXCEPT ![frame.id] = Append(@, body.calls[frame.pc])]
          /\ results' = [results EXCEPT ![frame.id] = Append(@, st)]
          /\ headers' = [headers EXCEPT ![tgt] = HostApply(@, body.calls[frame.pc], st)]
          /\ frame' = [frame EXCEPT !.pc = @ + 1, !.results = Append(@, st)]
    /\ UNCHANGED <<root, phase, upstream, action, delivered>>

\* lib.rs:18  the callback returns its Action to the host.
FilterReturn ==
    /\ frame.id # 0
    /\ phase[frame.id] = "running"
    /\ LET body == on_http_response_headers(frame.num, frame.eos, frame.results)
       IN /\ frame.pc > Len(body.calls)
          /\ action' = [action EXCEPT ![frame.id] = body.ret]
    /\ phase' = [phase EXCEPT ![frame.id] = "returned"]
    /\ UNCHANGED <<root, upstream, headers, hostcalls, results, delivered, frame>>

\* The host acts on the returned Action: on Continue it forwards the response
\* downstream with the header table as it now stands; on Pause it holds the
\* response; a trap fails the stream.
HostResume ==
    /\ frame.id # 0
    /\ phase[frame.id] = "returned"
    /\ phase' = [phase EXCEPT ![frame.id] =
                    IF action[frame.id] = "Continue" THEN "forwarded"
                    ELSE IF action[frame.id] = "Pause" THEN "paused"
                    ELSE "failed"]
    /\ delivered' = [delivered EXCEPT ![frame.id] =
                        IF action[frame.id] = "Continue" THEN headers[frame.id] ELSE @]
    /\ frame' = Idle
    /\ UNCHANGED <<root, upstream, headers, hostcalls, results, action>>

\* The host tears a stream's context down: before its response headers were
\* handled (the stream was reset) or after the response was forwarded.
HostDelete(id) ==
    /\ frame = Idle
    /\ phase[id] \in {"created", "upstream", "forwarded"}
    /\ phase' = [phase EXCEPT ![id] = "deleted"]
    /\ upstream' = [upstream EXCEPT ![id] = EmptyTable]
    /\ headers' = [headers EXCEPT ![id] = EmptyTable]
    /\ hostcalls' = [hostcalls EXCEPT ![id] = <<>>]
    /\ results' = [results EXCEPT ![id] = <<>>]
    /\ action' = [action EXCEPT ![id] = "none"]
    /\ delivered' = [delivered EXCEPT ![id] = EmptyTable]
    /\ UNCHANGED <<root, frame>>

NewStream == \E id \in Ids : HostNewStream(id)
UpstreamResponse == \E id \in Ids : \E t \in UpstreamTables : HostUpstreamResponse(id, t)
Invoke == \E id \in Ids : \E eos \in BOOLEAN : HostInvoke(id, eos)
HostCall == \E st \in {"Ok", "Err"} : FilterHostCall(st)
Delete == \E id \in Ids : HostDelete(id)

Next ==
    \/ HostStart
    \/ NewStream
    \/ UpstreamResponse
    \/ Invoke
    \/ HostCall
    \/ FilterReturn
    \/ HostResume
    \/ Delete

Spec == Init /\ [][Next]_vars

\* The callback's body is straight-line code and the host resumes as soon as
\* it returns: once a callback is invoked these steps are taken.
FairSpec ==
    Spec /\ WF_vars(HostCall) /\ WF_vars(FilterReturn) /\ WF_vars(HostResume)

\* ------------------------------------------------------------ properties
SetFoo == [op |-> "set", map |-> "HttpResponseHeaders", key |-> "x-wasm-custom", value |-> "FOO"]

\* on_http_response_headers has returned for the stream.
Called(id) == phase[id] \in {"returned", "forwarded", "paused", "failed"}

\* The host answered Ok to the stream's host-calls (and there was one).
HostCallOk(id) == results[id] # <<>> /\ "Err" \notin Values(results[id])

HostCallFailed(id) == "Err" \in Values(results[id])

C3_AlwaysContinue ==
    /\ \A id \in Ids : Called(id) => action[id] = "Continue"
    /\ \A id \in Ids : ~Called(id) => action[id] = "none"

C3_Witness ==
    /\ frame.id # 0
    /\ phase[frame.id] = "returned"
    /\ frame.num = 0
    /\ ~frame.eos
    /\ action[frame.id] = "Continue"
    /\ \E j \in Ids : phase[j] = "forwarded" /\ upstream[j] # EmptyTable

\* C4: when the host refuses the set-header call, the callback still returns
\* Continue; the stream is neither paused nor failed, as on success.
C4_FailureDiscarded ==
    \A id \in Ids :
        (Called(id) /\ HostCallFailed(id))
            => /\ action[id] = "Continue"
               /\ phase[id] \in {"returned", "forwarded"}

C4_Witness ==
    \E id \in Ids :
        /\ phase[id] = "forwarded"
        /\ results[id] = <<"Err">>
        /\ action[id] = "Continue"

\* C5: create_http_context yields a Filter context for every stream the host
\* begins, whatever the identifier and whatever came before: no stream is
\* ever left without a context.
C5_CreateNeverFails ==
    \A id \in Ids : phase[id] # "no_context"

C5_Witness ==
    \E i, j \in Ids :
        /\ i < j
        /\ phase[i] = "created"
        /\ phase[j] = "deleted"
        /\ \A k \in Ids : phase[k] # "none"

\* C6: an invocation of on_http_response_headers issues exactly one
\* host-call, set x-wasm-custom to FOO on the response headers, and has
\* issued it when it returns; no callback issues any other host-call.
C6_ExactlyOneHostCall ==
    \A id \in Ids :
        /\ Called(id) => hostcalls[id] = <<SetFoo>>
        /\ phase[id] = "running" => hostcalls[id] \in {<<>>, <<SetFoo>>}
        /\ phase[id] \in {"none", "no_context", "created", "upstream", "deleted"}
               => hostcalls[id] = <<>>

C6_Witness ==
    \E id \in Ids :
        /\ phase[id] = "returned"
        /\ action[id] = "Continue"
        /\ hostcalls[id] = <<SetFoo>>

\* C7: every exchange whose on_http_response_headers the host invokes is
\* eventually forwarded downstream, whether the host-call succeeded or not.
C7_NeverStalls ==
    \A id \in Ids : (phase[id] = "running") ~> (phase[id] = "forwarded")

C7_Witness ==
    \E i, j \in Ids :
        /\ phase[i] = "forwarded" /\ HostCallOk(i)
        /\ phase[j] = "forwarded" /\ HostCallFailed(j)

\* C8: a callback of one exchange (create_http_context, or a step of
\* on_http_response_headers) leaves every other exchange's header table,
\* host-calls and returned action as they were; and two exchanges with the
\* same upstream headers and the same host answer end with the same header
\* table and the same action, whichever ran first.
C8_StepOfOther(id) ==
    \/ frame.id # 0 /\ frame.id # id /\ phase[frame.id] = "running"
    \/ \E j \in Ids \ {id} : phase[j] = "none" /\ phase'[j] # "none"

C8_Isolation ==
    /\ [](\A i, j \in Ids :
            (Called(i) /\ Called(j) /\ upstream[i] = upstream[j] /\ results[i] = results[j])
                => (headers[i] = headers[j] /\ action[i] = action[j]))
    /\ [][\A id \in Ids :
            C8_StepOfOther(id) =>
                /\ headers'[id] = headers[id]
                /\ hostcalls'[id] = hostcalls[id]
                /\ results'[id] = results[id]
                /\ action'[id] = action[id]
                /\ delivered'[id] = delivered[id]]_vars

C8_Witness ==
    \E i, j \in Ids :
        /\ i # j
        /\ phase[i] = "forwarded"
        /\ upstream[i][XWasmCustom] = <<"BAR">>
        /\ phase[j] = "running"
        /\ hostcalls[j] = <<SetFoo>>
        /\ results[j] = <<"Ok">>
        /\ upstream[j] = EmptyTable

\* C9: create_http_context issues no host-call and changes no header table;
\* the plugin's host-calls are issued only while on_http_response_headers
\* runs for that exchange.
C9_CreateHasNoEffect ==
    [][/\ (\E j \in Ids : phase[j] = "none" /\ phase'[j] # "none")
            => /\ headers' = headers
               /\ hostcalls' = hostcalls
               /\ results' = results
               /\ delivered' = delivered
               /\ action' = action
       /\ \A id \in Ids :
            (hostcalls'[id] # hostcalls[id] /\ hostcalls'[id] # <<>>)
                => (frame.id = id /\ phase[id] = "running")]_vars

C9_Witness ==
    \E i, j \in Ids :
        /\ phase[i] = "created"
        /\ hostcalls[i] = <<>>
        /\ headers[i] = EmptyTable
        /\ phase[j] = "forwarded"
        /\ headers[j][XWasmCustom] = <<"FOO">>

====
